---- MODULE Spec2Model ----
(***************************************************************************)
(* Model of server.js: an express server whose handlers render a Python    *)
(* script into a fixed-name temp file, run it with runPythonScript, decode *)
(* the worker's stdout and answer with a {success, data | error} envelope. *)
(*                                                                         *)
(* Text is modelled at token level: a JavaScript string that the code      *)
(* inspects character by character (path parameters, body strings, urls)   *)
(* is a sequence of one-character strings; script output is a sequence of  *)
(* tokens [k, n, s] (punctuation, numbers, quoted strings, bare words,     *)
(* newline).  Insignificant blanks inside a line are not represented.      *)
(***************************************************************************)
EXTENDS Integers, Sequences, FiniteSets, TLC

\* ------------------------------------------------------------------ bounds
\* Number of request slots, i.e. requests that can be in flight together.
NumReq == 2
\* Largest number of stdout/stderr data events of one worker in BridgeSpec.
MaxChunks == 3

Req == 1..NumReq

\* ------------------------------------------------- characters and numbers
Digits == <<"0", "1", "2", "3", "4", "5", "6", "7", "8", "9">>
DigitSet == {Digits[i] : i \in 1..10}
DigitVal(c) == (CHOOSE i \in 1..10 : Digits[i] = c) - 1
\* StrWhiteSpaceChar of ECMAScript, as far as the inputs use it.
WhiteSpace == {" ", "\n", "\t"}

RECURSIVE DigitsVal(_, _)
\* Value of a digit string, most significant digit first.
DigitsVal(cs, acc) ==
  IF cs = <<>> THEN acc ELSE DigitsVal(Tail(cs), 10 * acc + DigitVal(Head(cs)))

RECURSIVE NatToChars(_)
NatToChars(n) ==
  IF n < 10 THEN <<Digits[n + 1]>> ELSE NatToChars(n \div 10) \o <<Digits[(n % 10) + 1]>>

RECURSIVE DigitPrefixLen(_)
\* Length of the longest prefix of cs made of decimal digits.
DigitPrefixLen(cs) ==
  IF cs = <<>> \/ Head(cs) \notin DigitSet THEN 0 ELSE 1 + DigitPrefixLen(Tail(cs))

RECURSIVE StripLeft(_)
StripLeft(cs) ==
  IF cs # <<>> /\ Head(cs) \in WhiteSpace THEN StripLeft(Tail(cs)) ELSE cs

RECURSIVE StripRight(_)
StripRight(cs) ==
  IF cs # <<>> /\ cs[Len(cs)] \in WhiteSpace
  THEN StripRight(SubSeq(cs, 1, Len(cs) - 1)) ELSE cs

RECURSIVE StripZerosRight(_)
StripZerosRight(cs) ==
  IF cs # <<>> /\ cs[Len(cs)] = "0"
  THEN StripZerosRight(SubSeq(cs, 1, Len(cs) - 1)) ELSE cs

\* ------------------------------------------------------ JavaScript values
\* A JavaScript value as it arrives in req.params / req.query / req.body.
\* t: "undefined" | "nan" | "num" | "str" | "bool".  A number is
\* (neg ? -1 : 1) * (n + 0.frac); a string is s; a boolean is n = 1 / 0.
JSVal(t, neg, n, frac, s) == [t |-> t, neg |-> neg, n |-> n, frac |-> frac, s |-> s]
JSUndefined == JSVal("undefined", FALSE, 0, <<>>, <<>>)
JSNaN == JSVal("nan", FALSE, 0, <<>>, <<>>)
JSNum(neg, n, frac) == JSVal("num", neg, n, StripZerosRight(frac), <<>>)
JSInt(i) == IF i < 0 THEN JSNum(TRUE, 0 - i, <<>>) ELSE JSNum(FALSE, i, <<>>)
JSStr(s) == JSVal("str", FALSE, 0, <<>>, s)
JSBool(b) == JSVal("bool", FALSE, IF b THEN 1 ELSE 0, <<>>, <<>>)

IsZero(v) == v.t = "num" /\ v.n = 0 /\ v.frac = <<>>
\* The integer a JavaScript number stands for when it has no fraction.
IntOf(v) == IF v.neg THEN 0 - v.n ELSE v.n

\* ToBoolean: undefined, NaN, +0, -0, "" and false are falsy.
Truthy(v) ==
  CASE v.t = "undefined" -> FALSE
    [] v.t = "nan" -> FALSE
    [] v.t = "num" -> ~IsZero(v)
    [] v.t = "str" -> v.s # <<>>
    [] v.t = "bool" -> v.n = 1

\* Number::toString for magnitudes in [1e-6, 1e21): sign, integer digits and,
\* when there is a fraction, "." and the fraction digits.
NumToChars(v) ==
  (IF v.neg /\ ~IsZero(v) THEN <<"-">> ELSE <<>>)
    \o NatToChars(v.n)
    \o (IF v.frac = <<>> THEN <<>> ELSE <<".">> \o v.frac)

\* ToString of a value.
ToChars(v) ==
  CASE v.t = "undefined" -> <<"u", "n", "d", "e", "f", "i", "n", "e", "d">>
    [] v.t = "nan" -> <<"N", "a", "N">>
    [] v.t = "num" -> NumToChars(v)
    [] v.t = "str" -> v.s
    [] v.t = "bool" -> IF v.n = 1 THEN <<"t", "r", "u", "e">>
                                   ELSE <<"f", "a", "l", "s", "e">>

\* StringToNumber: the trimmed string must be empty (0) or be a whole
\* StrDecimalLiteral [sign] digits [. digits]; anything else is NaN.
StringToNumber(cs) ==
  LET t == StripRight(StripLeft(cs))
      neg == t # <<>> /\ Head(t) = "-"
      u == IF t # <<>> /\ Head(t) \in {"-", "+"} THEN Tail(t) ELSE t
      k == DigitPrefixLen(u)
      ip == SubSeq(u, 1, k)
      rest == SubSeq(u, k + 1, Len(u))
      fr == IF rest # <<>> /\ Head(rest) = "." THEN Tail(rest) ELSE <<>>
  IN  IF t = <<>> THEN JSInt(0)
      ELSE IF u = <<>> THEN JSNaN
      ELSE IF rest = <<>> /\ k > 0 THEN JSNum(neg, DigitsVal(ip, 0), <<>>)
      ELSE IF rest # <<>> /\ Head(rest) = "." /\ DigitPrefixLen(fr) = Len(fr)
              /\ (k > 0 \/ fr # <<>>)
           THEN JSNum(neg, DigitsVal(ip, 0), fr)
      ELSE JSNaN

\* ToNumber.
ToNumber(v) ==
  CASE v.t = "undefined" -> JSNaN
    [] v.t = "nan" -> JSNaN
    [] v.t = "num" -> v
    [] v.t = "str" -> StringToNumber(v.s)
    [] v.t = "bool" -> JSInt(v.n)

\* Global isNaN(v): ToNumber(v) is NaN.
isNaN(v) == ToNumber(v).t = "nan"

\* The relation v <= 0 of JavaScript: false when ToNumber(v) is NaN.
LeqZero(v) ==
  LET x == ToNumber(v) IN x.t = "num" /\ (IsZero(x) \/ x.neg)

\* parseInt(v) with radix 10: ToString, skip leading white space, an optional
\* sign, then the longest run of digits; NaN when that run is empty.
parseInt(v) ==
  LET t == StripLeft(ToChars(v))
      neg == t # <<>> /\ Head(t) = "-"
      u == IF t # <<>> /\ Head(t) \in {"-", "+"} THEN Tail(t) ELSE t
      k == DigitPrefixLen(u)
  IN  IF k = 0 THEN JSNaN ELSE JSNum(neg, DigitsVal(SubSeq(u, 1, k), 0), <<>>)

\* ------------------------------------------------------------ text tokens
Tok(k, n, s) == [k |-> k, n |-> n, s |-> s]
\* Punctuation, number literal, double-quoted string, bare word, newline.
P(c) == Tok("p", 0, <<c>>)
Num(i) == Tok("num", i, <<>>)
QStr(cs) == Tok("str", 0, cs)
Word(w) == Tok("word", 0, <<w>>)
NL == Tok("nl", 0, <<>>)

RECURSIVE TrimLeft(_)
TrimLeft(ts) == IF ts # <<>> /\ Head(ts) = NL THEN TrimLeft(Tail(ts)) ELSE ts

RECURSIVE TrimRight(_)
TrimRight(ts) ==
  IF ts # <<>> /\ ts[Len(ts)] = NL THEN TrimRight(SubSeq(ts, 1, Len(ts) - 1)) ELSE ts

\* String.prototype.trim on a text.
trim(ts) == TrimRight(TrimLeft(ts))

\* ------------------------------------------------------ structured values
\* Values on the Python side and decoded values on the JavaScript side.
\* t: "num" | "str" | "null" | "arr" | "tuple" | "obj" | "undefined".
Val(t, n, s, keys, items) == [t |-> t, n |-> n, s |-> s, keys |-> keys, items |-> items]
VNum(i) == Val("num", i, <<>>, <<>>, <<>>)
VStr(cs) == Val("str", 0, cs, <<>>, <<>>)
VNull == Val("null", 0, <<>>, <<>>, <<>>)
VUndefined == Val("undefined", 0, <<>>, <<>>, <<>>)
VArr(items) == Val("arr", 0, <<>>, <<>>, items)
VTuple(items) == Val("tuple", 0, <<>>, <<>>, items)
VObj(keys, items) == Val("obj", 0, <<>>, keys, items)

\* obj[key] of a decoded object; undefined when the key is absent.
Field(v, key) ==
  IF v.t = "obj" /\ \E i \in 1..Len(v.keys) : v.keys[i] = key
  THEN v.items[CHOOSE i \in 1..Len(v.keys) : v.keys[i] = key]
  ELSE VUndefined

\* A parser result: ok, the value, and the tokens not yet consumed.
Parsed(v, rest) == [ok |-> TRUE, val |-> v, rest |-> rest]
ParseFail == [ok |-> FALSE, val |-> VUndefined, rest |-> <<>>]

\* -------------------------------------------------- Python: printing values
RECURSIVE PyRepr(_)
RECURSIVE PyReprItems(_)
\* repr() of ints, lists and tuples, as print(f'{benchmarks}') writes it.
PyRepr(v) ==
  CASE v.t = "num" -> <<Num(v.n)>>
    [] v.t = "arr" -> <<P("[")>> \o PyReprItems(v.items) \o <<P("]")>>
    [] v.t = "tuple" -> <<P("(")>> \o PyReprItems(v.items) \o <<P(")")>>
    [] OTHER -> <<Word("None")>>

PyReprItems(items) ==
  IF items = <<>> THEN <<>>
  ELSE IF Len(items) = 1 THEN PyRepr(items[1])
  ELSE PyRepr(items[1]) \o <<P(",")>> \o PyReprItems(Tail(items))

RECURSIVE JsonDumps(_)
RECURSIVE JsonDumpsItems(_)
RECURSIVE JsonDumpsPairs(_, _)
\* json.dumps() of a value.
JsonDumps(v) ==
  CASE v.t = "num" -> <<Num(v.n)>>
    [] v.t = "str" -> <<QStr(v.s)>>
    [] v.t = "arr" -> <<P("[")>> \o JsonDumpsItems(v.items) \o <<P("]")>>
    [] v.t = "tuple" -> <<P("[")>> \o JsonDumpsItems(v.items) \o <<P("]")>>
    [] v.t = "obj" -> <<P("{")>> \o JsonDumpsPairs(v.keys, v.items) \o <<P("}")>>
    [] OTHER -> <<Word("null")>>

JsonDumpsItems(items) ==
  IF items = <<>> THEN <<>>
  ELSE IF Len(items) = 1 THEN JsonDumps(items[1])
  ELSE JsonDumps(items[1]) \o <<P(",")>> \o JsonDumpsItems(Tail(items))

JsonDumpsPairs(keys, items) ==
  IF keys = <<>> THEN <<>>
  ELSE <<QStr(keys[1]), P(":")>> \o JsonDumps(items[1])
         \o (IF Len(keys) = 1 THEN <<>>
             ELSE <<P(",")>> \o JsonDumpsPairs(Tail(keys), Tail(items)))

\* --------------------------------------------- JavaScript: decoding output
RECURSIVE JsonValue(_)
RECURSIVE JsonElements(_, _)
RECURSIVE JsonMembers(_, _, _)
\* One JSON value at the head of ts (white space skipped).
JsonValue(ts0) ==
  LET ts == TrimLeft(ts0) IN
  IF ts = <<>> THEN ParseFail
  ELSE LET h == Head(ts) IN
    CASE h.k = "num" -> Parsed(VNum(h.n), Tail(ts))
      [] h.k = "str" -> Parsed(VStr(h.s), Tail(ts))
      [] h = Word("null") -> Parsed(VNull, Tail(ts))
      [] h = P("[") ->
           LET r == TrimLeft(Tail(ts)) IN
           IF r # <<>> /\ Head(r) = P("]") THEN Parsed(VArr(<<>>), Tail(r))
           ELSE JsonElements(r, <<>>)
      [] h = P("{") ->
           LET r == TrimLeft(Tail(ts)) IN
           IF r # <<>> /\ Head(r) = P("}") THEN Parsed(VObj(<<>>, <<>>), Tail(r))
           ELSE JsonMembers(r, <<>>, <<>>)
      [] OTHER -> ParseFail

\* value ("," value)* "]"
JsonElements(ts, acc) ==
  LET e == JsonValue(ts) IN
  IF ~e.ok THEN ParseFail
  ELSE LET r == TrimLeft(e.rest) IN
    IF r = <<>> THEN ParseFail
    ELSE IF Head(r) = P("]") THEN Parsed(VArr(Append(acc, e.val)), Tail(r))
    ELSE IF Head(r) = P(",") THEN JsonElements(Tail(r), Append(acc, e.val))
    ELSE ParseFail

\* string ":" value ("," string ":" value)* "}"
JsonMembers(ts0, keys, items) ==
  LET ts == TrimLeft(ts0) IN
  IF Len(ts) < 2 \/ Head(ts).k # "str" \/ TrimLeft(Tail(ts)) = <<>>
     \/ Head(TrimLeft(Tail(ts))) # P(":")
  THEN ParseFail
  ELSE LET e == JsonValue(Tail(TrimLeft(Tail(ts)))) IN
    IF ~e.ok THEN ParseFail
    ELSE LET r == TrimLeft(e.rest)
             ks == Append(keys, Head(ts).s)
             vs == Append(items, e.val) IN
      IF r = <<>> THEN ParseFail
      ELSE IF Head(r) = P("}") THEN Parsed(VObj(ks, vs), Tail(r))
      ELSE IF Head(r) = P(",") THEN JsonMembers(Tail(r), ks, vs)
      ELSE ParseFail

\* JSON.parse(text): the decoded value, or ParseFail when it throws.
JSONParse(ts) ==
  LET r == JsonValue(ts) IN
  IF r.ok /\ TrimLeft(r.rest) = <<>> THEN Parsed(r.val, <<>>) ELSE ParseFail

RECURSIVE JsExpr(_)
RECURSIVE JsArrayItems(_, _)
RECURSIVE JsCommaItems(_)
\* One JavaScript expression at the head of ts: a number, an array literal,
\* or a parenthesised comma expression, whose value is its LAST operand.
JsExpr(ts0) ==
  LET ts == TrimLeft(ts0) IN
  IF ts = <<>> THEN ParseFail
  ELSE LET h == Head(ts) IN
    CASE h.k = "num" -> Parsed(VNum(h.n), Tail(ts))
      [] h = P("[") ->
           LET r == TrimLeft(Tail(ts)) IN
           IF r # <<>> /\ Head(r) = P("]") THEN Parsed(VArr(<<>>), Tail(r))
           ELSE JsArrayItems(r, <<>>)
      [] h = P("(") -> JsCommaItems(Tail(ts))
      [] OTHER -> ParseFail

JsArrayItems(ts, acc) ==
  LET e == JsExpr(ts) IN
  IF ~e.ok THEN ParseFail
  ELSE LET r == TrimLeft(e.rest) IN
    IF r = <<>> THEN ParseFail
    ELSE IF Head(r) = P("]") THEN Parsed(VArr(Append(acc, e.val)), Tail(r))
    ELSE IF Head(r) = P(",") THEN JsArrayItems(Tail(r), Append(acc, e.val))
    ELSE ParseFail

JsCommaItems(ts) ==
  LET e == JsExpr(ts) IN
  IF ~e.ok THEN ParseFail
  ELSE LET r == TrimLeft(e.rest) IN
    IF r = <<>> THEN ParseFail
    ELSE IF Head(r) = P(")") THEN Parsed(e.val, Tail(r))
    ELSE IF Head(r) = P(",") THEN JsCommaItems(Tail(r))
    ELSE ParseFail

\* eval(text) of server.js:103: the value of the expression (undefined for
\* an empty text), or ParseFail when eval throws a SyntaxError.
eval(ts) ==
  LET r == JsExpr(ts) IN
  IF TrimLeft(ts) = <<>> THEN Parsed(VUndefined, <<>>)
  ELSE IF r.ok /\ TrimLeft(r.rest) = <<>> THEN Parsed(r.val, <<>>) ELSE ParseFail

\* ------------------------------------------------ Python: the payout script
\* The benchmark table of the script templates, as (views, payout) pairs.
benchmarks ==
  << <<10000, 45>>, <<25000, 80>>, <<50000, 160>>, <<100000, 260>>,
     <<250000, 370>>, <<500000, 650>>, <<1000000, 850>>, <<5000000, 2500>> >>

\* The table as a Python list of tuples.
benchmarksValue ==
  VArr([i \in 1..Len(benchmarks) |->
          VTuple(<<VNum(benchmarks[i][1]), VNum(benchmarks[i][2])>>)])

\* math.log10 is computed in fixed point: LogUnit is the scale of the
\* mantissa and LogBits the number of binary digits of the fraction.
LogUnit == 1000
LogBits == 10

RECURSIVE Pow(_, _)
Pow(b, e) == IF e = 0 THEN 1 ELSE b * Pow(b, e - 1)

RECURSIVE NumDigits(_)
NumDigits(x) == IF x < 10 THEN 1 ELSE 1 + NumDigits(x \div 10)

RECURSIVE LogFraction(_, _, _)
\* Binary digits of log10(m / LogUnit) for 1 <= m / LogUnit < 10, by
\* repeated squaring: a square that reaches 10 yields the digit 1.
LogFraction(m, i, acc) ==
  IF i = 0 THEN acc
  ELSE LET sq == (m * m) \div LogUnit IN
       IF sq >= 10 * LogUnit THEN LogFraction(sq \div 10, i - 1, 2 * acc + 1)
       ELSE LogFraction(sq, i - 1, 2 * acc)

\* math.log10(x) for an integer x >= 1, in units of 2^-LogBits.
log10(x) ==
  LET k == NumDigits(x) - 1
      m == IF k <= 3 THEN (x * LogUnit) \div Pow(10, k) ELSE x \div Pow(10, k - 3)
  IN  k * Pow(2, LogBits) + LogFraction(m, LogBits, 0)

\* Python's round() of the non-negative fraction num / den: nearest integer,
\* a tie going to the even neighbour.
round(num, den) ==
  LET q == num \div den
      r == num % den
  IN  IF 2 * r > den \/ (2 * r = den /\ q % 2 = 1) THEN q + 1 ELSE q

RECURSIVE payoutScanSum(_, _)
\* The for loop with payout_value = p0 + log_ratio * (p1 + p0).
payoutScanSum(views, i) ==
  IF i > Len(benchmarks) - 1 THEN 0
  ELSE LET v0 == benchmarks[i][1]
           p0 == benchmarks[i][2]
           v1 == benchmarks[i + 1][1]
           p1 == benchmarks[i + 1][2]
       IN  IF v0 <= views /\ views <= v1
           THEN round(p0 * (log10(v1) - log10(v0))
                        + (log10(views) - log10(v0)) * (p1 + p0),
                      log10(v1) - log10(v0))
           ELSE payoutScanSum(views, i + 1)

RECURSIVE payoutScanFromUpper(_, _)
\* The for loop with log_ratio measured from the upper end of the segment:
\* (log10(v1) - log10(views)) / (log10(v1) - log10(v0)).
payoutScanFromUpper(views, i) ==
  IF i > Len(benchmarks) - 1 THEN 0
  ELSE LET v0 == benchmarks[i][1]
           p0 == benchmarks[i][2]
           v1 == benchmarks[i + 1][1]
           p1 == benchmarks[i + 1][2]
       IN  IF v0 <= views /\ views <= v1
           THEN round(p0 * (log10(v1) - log10(v0))
                        + (log10(v1) - log10(views)) * (p1 - p0),
                      log10(v1) - log10(v0))
           ELSE payoutScanFromUpper(views, i + 1)

RECURSIVE payoutScan(_, _)
\* The for loop of payout(): the first adjacent pair with v0 <= views <= v1.
payoutScan(views, i) ==
  IF i > Len(benchmarks) - 1 THEN 0
  ELSE LET v0 == benchmarks[i][1]
           p0 == benchmarks[i][2]
           v1 == benchmarks[i + 1][1]
           p1 == benchmarks[i + 1][2]
       IN  IF v0 <= views /\ views <= v1
           THEN round(p0 * (log10(v1) - log10(v0))
                        + (log10(views) - log10(v0)) * (p1 - p0),
                      log10(v1) - log10(v0))
           ELSE payoutScan(views, i + 1)

\* payout() without its second if: no clamp at the upper end of the table.
payoutNoUpperClamp(views) ==
  IF views <= benchmarks[1][1] THEN benchmarks[1][2]
  ELSE payoutScan(views, 1)

\* def payout(views): clamped at both ends of the table, log-log
\* interpolated and rounded in between.
payout(views) ==
  IF views <= benchmarks[1][1] THEN benchmarks[1][2]
  ELSE IF views >= benchmarks[Len(benchmarks)][1] THEN benchmarks[Len(benchmarks)][2]
  ELSE payoutScan(views, 1)

RECURSIVE range(_, _, _)
\* list(range(start, stop, step)) for step # 0.
range(start, stop, step) ==
  IF (step > 0 /\ start >= stop) \/ (step < 0 /\ start <= stop) THEN <<>>
  ELSE <<start>> \o range(start + step, stop, step)

\* {"views": v, "payout": payout(v)}
PayoutPoint(v) == VObj(<< <<"views">>, <<"payout">> >>, <<VNum(v), VNum(payout(v))>>)

\* ------------------------------------------------------ requests and URLs
\* An inbound request: the endpoint and the inputs the handler reads.
\* views: req.params.views or req.body.views; url: req.body.url; urls:
\* req.body.urls (isArray says whether it is an array, urls its elements);
\* query: <<start, end, step>> of req.query.
Request(ep, views, url, isArray, urls, query) ==
  [ep |-> ep, views |-> views, url |-> url, isArray |-> isArray, urls |-> urls,
   query |-> query]
NoQuery == <<JSUndefined, JSUndefined, JSUndefined>>
NoRequest == Request("none", JSUndefined, JSUndefined, FALSE, <<>>, NoQuery)

Alpha == {"a", "b", "c", "h", "n", "o", "p", "r", "s", "t", "u", "l"}
SchemeChar == Alpha \cup DigitSet \cup {"+", "-", "."}
ForbiddenHostChar == {" ", "#", "/", ":", "<", ">", "?", "@", "[", "\\", "]", "^", "|"}
SpecialSchemes == {<<"h", "t", "t", "p">>, <<"h", "t", "t", "p", "s">>}

RECURSIVE StripSlashes(_)
StripSlashes(cs) ==
  IF cs # <<>> /\ Head(cs) \in {"/", "\\"} THEN StripSlashes(Tail(cs)) ELSE cs

RECURSIVE HostOf(_)
\* The authority's host: the characters up to the next "/", "?" or "#".
HostOf(cs) ==
  IF cs = <<>> \/ Head(cs) \in {"/", "?", "#"} THEN <<>>
  ELSE <<Head(cs)>> \o HostOf(Tail(cs))

\* new URL(url) without a base does not throw: after trimming, the string
\* starts with a scheme (a letter, then letters, digits, "+", "-", "."), then
\* ":"; a special scheme needs a non-empty host, and the host of an
\* authority holds no forbidden character.
URLParses(v) ==
  LET t == StripRight(StripLeft(ToChars(v)))
      colons == {i \in 1..Len(t) : t[i] = ":"}
  IN  /\ colons # {}
      /\ LET k == CHOOSE i \in colons : \A j \in colons : i <= j
             scheme == SubSeq(t, 1, k - 1)
             rest == SubSeq(t, k + 1, Len(t))
             host == HostOf(StripSlashes(rest))
         IN  /\ k > 1
             /\ t[1] \in Alpha
             /\ \A j \in 1..(k - 1) : t[j] \in SchemeChar
             /\ IF scheme \in SpecialSchemes
                THEN host # <<>> /\ \A j \in 1..Len(host) : host[j] \notin ForbiddenHostChar \ {":"}
                ELSE Len(rest) >= 2 /\ rest[1] = "/" /\ rest[2] = "/"
                       => \A j \in 1..Len(HostOf(SubSeq(rest, 3, Len(rest)))) :
                            HostOf(SubSeq(rest, 3, Len(rest)))[j] \notin ForbiddenHostChar \ {":"}

\* ------------------------------------------------------------- responses
\* res.status(status).json({success, data, error, count}); a field that the
\* handler does not send is VUndefined, <<>> or -1.
Response(status, success, data, error, count) ==
  [status |-> status, success |-> success, data |-> data, error |-> error,
   count |-> count]
NoResponse == Response(0, FALSE, VUndefined, <<>>, -1)
Ok200(data, count) == Response(200, TRUE, data, <<>>, count)
Err400(msg) == Response(400, FALSE, VUndefined, msg, -1)
\* The catch block of every handler.
Err500(msg) == Response(500, FALSE, VUndefined, msg, -1)

ScraperSingle == {"advanced", "comprehensive"}
ScraperMultiple == {"advancedMultiple", "comprehensiveMultiple"}
Calculate == {"calculateGet", "calculatePost"}

\* ------------------------------------------------------------- validation
RECURSIVE FirstInvalidURL(_, _)
\* for (const url of urls) { try { new URL(url) } catch { return 400 } }:
\* the index of the first element that does not parse, 0 when all do.
FirstInvalidURL(urls, i) ==
  IF i > Len(urls) THEN 0
  ELSE IF ~URLParses(urls[i]) THEN i
  ELSE FirstInvalidURL(urls, i + 1)

\* Only the first element is looked at.
ValidateMultipleFirstOnly(rq) ==
  IF ~rq.isArray \/ Len(rq.urls) = 0 THEN Err400(<<Word("URLs array is required")>>)
  ELSE IF ~URLParses(rq.urls[1])
       THEN Err400(<<Word("Invalid URL format:"), QStr(ToChars(rq.urls[1]))>>)
  ELSE NoResponse

\* server.js:362-379 and 465-482.
ValidateMultiple(rq) ==
  IF ~rq.isArray \/ Len(rq.urls) = 0 THEN Err400(<<Word("URLs array is required")>>)
  ELSE IF FirstInvalidURL(rq.urls, 1) # 0
       THEN Err400(<<Word("Invalid URL format:"),
                     QStr(ToChars(rq.urls[FirstInvalidURL(rq.urls, 1)]))>>)
  ELSE NoResponse

\* server.js:312-327 and 415-430.
ValidateSingle(rq) ==
  IF ~Truthy(rq.url) THEN Err400(<<Word("URL is required")>>)
  ELSE IF ~URLParses(rq.url) THEN Err400(<<Word("Invalid URL format")>>)
  ELSE NoResponse

\* server.js:121-128.
ValidateGet(rq) ==
  LET views == parseInt(rq.views) IN
  IF isNaN(views) \/ LeqZero(views)
  THEN Err400(<<Word("Views must be a positive number")>>)
  ELSE NoResponse

\* server.js:183-190.
ValidatePost(rq) ==
  IF ~Truthy(rq.views) \/ isNaN(rq.views) \/ LeqZero(rq.views)
  THEN Err400(<<Word("Views must be a positive number")>>)
  ELSE NoResponse

\* The early return of a handler: the 400 response, or NoResponse when the
\* handler goes on to render its script.  The benchmarks and chart-data
\* handlers validate nothing.
Validate(rq) ==
  CASE rq.ep = "calculateGet" -> ValidateGet(rq)
    [] rq.ep = "calculatePost" -> ValidatePost(rq)
    [] rq.ep \in ScraperSingle -> ValidateSingle(rq)
    [] rq.ep \in ScraperMultiple -> ValidateMultiple(rq)
    [] OTHER -> NoResponse

\* ------------------------------------------------------- script templates
\* A rendered script: the template and the texts spliced into its holes.
Body(tpl, args) == [tpl |-> tpl, args |-> args]
\* No file of that name; a file truncated by a writer that has not yet
\* written its content.
NoFile == Body("", <<>>)
EmptyBody == Body("empty", <<>>)

\* `${x}` of a number: its decimal digits, or NaN.
NumTok(v) == IF v.t = "nan" THEN Word("NaN") ELSE Num(IntOf(v))
\* `"${url}"`: the characters of url spliced between the two quotes.
Splice(v) == Tok("splice", 0, ToChars(v))
\* const { start = 1000, ... } = req.query
Default(v, d) == IF v.t = "undefined" THEN JSInt(d) ELSE v
\* JSON.stringify(urls)
Stringify(urls) == JsonDumps(VArr([i \in 1..Len(urls) |-> VStr(ToChars(urls[i]))]))

\* The script the handler of rq.ep renders.
Render(rq) ==
  CASE rq.ep = "benchmarks" -> Body("benchmarks", <<>>)
    [] rq.ep = "calculateGet" -> Body("payout", <<NumTok(parseInt(rq.views))>>)
    [] rq.ep = "calculatePost" -> Body("payout", <<NumTok(parseInt(rq.views))>>)
    [] rq.ep = "chartData" ->
         Body("chart", <<NumTok(parseInt(Default(rq.query[1], 1000))),
                         NumTok(parseInt(Default(rq.query[2], 5000000))),
                         NumTok(parseInt(Default(rq.query[3], 10000)))>>)
    [] rq.ep = "advanced" -> Body("advanced", <<Splice(rq.url)>>)
    [] rq.ep = "comprehensive" -> Body("comprehensive", <<Splice(rq.url)>>)
    [] rq.ep = "advancedMultiple" -> Body("advancedMultiple", Stringify(rq.urls))
    [] rq.ep = "comprehensiveMultiple" -> Body("comprehensiveMultiple", Stringify(rq.urls))
    [] OTHER -> NoFile

\* The fixed temp file name of each handler.
FileOf(ep) ==
  CASE ep = "benchmarks" -> "temp_benchmarks.py"
    [] ep = "calculateGet" -> "temp_payout.py"
    [] ep = "calculatePost" -> "temp_payout.py"
    [] ep = "chartData" -> "temp_chart.py"
    [] ep = "advanced" -> "temp_advanced_scrape.py"
    [] ep = "advancedMultiple" -> "temp_advanced_multiple.py"
    [] ep = "comprehensive" -> "temp_comprehensive_scrape.py"
    [] ep = "comprehensiveMultiple" -> "temp_comprehensive_multiple.py"
    [] OTHER -> "none"

FileNames ==
  {"temp_benchmarks.py", "temp_payout.py", "temp_chart.py", "temp_advanced_scrape.py",
   "temp_advanced_multiple.py", "temp_comprehensive_scrape.py",
   "temp_comprehensive_multiple.py", "none"}

\* -------------------------------------------------- the Python worker
\* What a worker leaves behind: all of its stdout, all of its stderr and
\* its exit code.
Outcome(out, err, code) == [out |-> out, err |-> err, code |-> code]
NoOutcome == Outcome(<<>>, <<>>, 0)
PyError(name) == Outcome(<<>>, <<Word("Traceback"), Word(name)>>, 1)

\* The scrapers (advanced_scraper, real_estate_scraper) are not part of the
\* program: a scraping script may print a JSON document, print null, print
\* a log line before its JSON, or die with or without a traceback.
ScraperOutcomes(multiple) ==
  { Outcome(JsonDumps(IF multiple THEN VArr(<<VObj(<<>>, <<>>)>>) ELSE VObj(<<>>, <<>>))
              \o <<NL>>, <<>>, 0),
    Outcome(<<Word("null"), NL>>, <<>>, 0),
    Outcome(<<Word("Scraping"), NL, P("{"), P("}"), NL>>, <<>>, 0),
    PyError("Exception"),
    Outcome(<<>>, <<>>, 1) }

\* The chart-data script with range(start, end, step): the stop value left
\* as end.
ChartValueStopAtEnd(start, end, step) ==
  LET views == range(start, end, step) IN
  VObj(<< <<"chart_data">>, <<"benchmarks">> >>,
       << VArr([i \in 1..Len(views) |-> PayoutPoint(views[i])]),
          VArr([i \in 1..Len(benchmarks) |->
                  VObj(<< <<"views">>, <<"payout">> >>,
                       <<VNum(benchmarks[i][1]), VNum(benchmarks[i][2])>>)]) >>)

\* The chart-data script once start, end and step are bound.
ChartValue(start, end, step) ==
  LET views == range(start, end + 1, step) IN
  VObj(<< <<"chart_data">>, <<"benchmarks">> >>,
       << VArr([i \in 1..Len(views) |-> PayoutPoint(views[i])]),
          VArr([i \in 1..Len(benchmarks) |->
                  VObj(<< <<"views">>, <<"payout">> >>,
                       <<VNum(benchmarks[i][1]), VNum(benchmarks[i][2])>>)]) >>)

\* python3 <file>: the outcomes of running the script that the interpreter
\* found in the file.
Exec(body) ==
  CASE body = NoFile -> {Outcome(<<>>, <<Word("can't open file")>>, 2)}
    [] body = EmptyBody -> {NoOutcome}
    [] body.tpl = "benchmarks" -> {Outcome(PyRepr(benchmarksValue) \o <<NL>>, <<>>, 0)}
    [] body.tpl = "payout" ->
         IF body.args[1].k # "num" THEN {PyError("NameError")}
         ELSE {Outcome(JsonDumps(PayoutPoint(body.args[1].n)) \o <<NL>>, <<>>, 0)}
    [] body.tpl = "chart" ->
         IF \E i \in 1..3 : body.args[i].k # "num" THEN {PyError("NameError")}
         ELSE IF body.args[3].n = 0 THEN {PyError("ValueError")}
         ELSE {Outcome(JsonDumps(ChartValue(body.args[1].n, body.args[2].n, body.args[3].n))
                         \o <<NL>>, <<>>, 0)}
    [] body.tpl \in ScraperSingle -> ScraperOutcomes(FALSE)
    [] body.tpl \in ScraperMultiple -> ScraperOutcomes(TRUE)

\* ---------------------------------------------------------------- state
VARIABLES
  pc,        \* where each request's handler stands
  request,   \* the request each handler serves
  files,     \* the working directory: file name -> content
  python,    \* each request's worker process
  stdout,    \* runPythonScript: accumulated stdout
  stderr,    \* runPythonScript: accumulated stderr
  promise,   \* runPythonScript: the promise it returned
  result,    \* the handler's decoded output
  response,  \* the response sent
  arrived,   \* history: the events of each worker, in arrival order
  acquired,  \* history: the handler's fs.writeFile succeeded
  released,  \* history: the handler's fs.remove succeeded
  launches,  \* history: number of spawn calls of each request
  bound,     \* what the url / urls variable of each worker's script holds
  stdin      \* runPythonScript: its input and what it did to python.stdin

vars ==
  <<pc, request, files, python, stdout, stderr, promise, result, response, arrived,
    acquired, released, launches, bound, stdin>>

\* The child process: st is "none", "spawned" (launched, script not yet
\* read), "running" (script read), "failed" (could not be launched) or
\* "exited"; body is the script it read; outcome what it printed.
Process(st, body, outcome) == [st |-> st, body |-> body, outcome |-> outcome]

Pending == [state |-> "pending", value |-> <<>>]
Resolved(text) == [state |-> "resolved", value |-> text]
Rejected(msg) == [state |-> "rejected", value |-> msg]

\* A promise that every call of resolve or reject settles anew.
SettleAgain(p, outcome) == outcome

\* resolve / reject of a promise: only the first call settles it.
Settle(p, outcome) == IF p.state = "pending" THEN outcome ELSE p

\* ------------------------------------------------- runPythonScript handlers
RECURSIVE JSONQuoteChars(_)
\* JSON.stringify of a string, between the quotes: a quote, a backslash and
\* the control characters are escaped.
JSONQuoteChars(cs) ==
  IF cs = <<>> THEN <<>>
  ELSE (CASE Head(cs) = "\"" -> <<"\\", "\"">>
          [] Head(cs) = "\\" -> <<"\\", "\\">>
          [] Head(cs) = "\n" -> <<"\\", "n">>
          [] Head(cs) = "\t" -> <<"\\", "t">>
          [] OTHER -> <<Head(cs)>>) \o JSONQuoteChars(Tail(cs))

\* JSON.stringify(input) of a primitive value.
JSONStringify(v) ==
  IF v.t = "str" THEN <<"\"">> \o JSONQuoteChars(v.s) \o <<"\"">> ELSE ToChars(v)

\* The stdin of a worker: the input runPythonScript was called with
\* (undefined when the argument is left out) and the operations made on
\* python.stdin, in order.
Stdin(input, ops) == [input |-> input, ops |-> ops]
StdinWrite(text) == [op |-> "write", text |-> text]
StdinEnd == [op |-> "end", text |-> <<>>]

\* Every payload but undefined and null is written.
WriteInputAlways(input) ==
  Stdin(input, IF input.t # "undefined"
               THEN <<StdinWrite(JSONStringify(input)), StdinEnd>> ELSE <<>>)

\* if (input) { python.stdin.write(JSON.stringify(input)); python.stdin.end(); }
\* with input = null when the argument is left out.
WriteInput(input) ==
  Stdin(input, IF Truthy(input)
               THEN <<StdinWrite(JSONStringify(input)), StdinEnd>> ELSE <<>>)

\* stdout = data: the chunk replaces what was accumulated.
OnStdoutDataOverwrite(acc, data) == data

\* python.stdout.on('data'): stdout += data.toString()
OnStdoutData(acc, data) == acc \o data

\* python.stderr.on('data'): stderr += data.toString()
OnStderrData(acc, data) == acc \o data

\* python.on('close'): resolve(stdout) on code 0, otherwise
\* reject(new Error(stderr || `Process exited with code ${code}`)).
OnClose(p, out, err, code) ==
  IF code = 0 THEN Settle(p, Resolved(out))
  ELSE Settle(p, Rejected(IF err # <<>> THEN err
                          ELSE <<Word("Process exited with code"), Num(code)>>))

\* An 'error' listener that does not reject: the promise waits for 'close'.
OnErrorIgnored(p, error) == p

\* python.on('error'): reject(error)
OnError(p, error) == Settle(p, Rejected(error))

SpawnENOENT == <<Word("spawn python3 ENOENT")>>

\* An event of the child process as runPythonScript's listeners see it: ev
\* is "stdout", "stderr" (a 'data' chunk), "close" (with its code) or "error".
Event(ev, data, code) == [ev |-> ev, data |-> data, code |-> code]

\* ------------------------------------------------- the requests explored
Chars7 == <<"7">>
Chars25000 == <<"2", "5", "0", "0", "0">>
UrlA == JSStr(<<"a", ":", "b">>)
UrlB == JSStr(<<"h", "t", "t", "p", ":", "/", "/", "a">>)
NotAUrl == JSStr(<<"n", "o", "t", "-", "a", "-", "u", "r", "l">>)

GetViews == {JSStr(Chars7), JSStr(Chars25000), JSStr(<<"0">>), JSStr(<<"-", "3">>),
             JSStr(<<"a">>)}
PostViews == {JSUndefined, JSInt(100000), JSInt(0), JSNum(FALSE, 0, <<"5">>),
              JSStr(<<"8">>), JSStr(<<"a">>), JSBool(TRUE)}
Queries ==
  { <<JSStr(<<"1">>), JSStr(<<"3">>), JSStr(<<"1">>)>>,
    <<JSStr(<<"4", "9", "9", "9", "9", "9", "9">>), JSUndefined, JSStr(<<"1">>)>>,
    <<JSStr(<<"1">>), JSStr(<<"3">>), JSStr(<<"0">>)>>,
    <<JSStr(<<"x">>), JSStr(<<"3">>), JSStr(<<"1">>)>> }
Urls == {JSUndefined, UrlA, NotAUrl}
UrlLists == {<<>>, <<UrlB, UrlA>>, <<UrlA, NotAUrl>>, <<NotAUrl>>}

\* Requests to the payout endpoints and to the scraper endpoints.
PayoutRequests ==
  {Request("benchmarks", JSUndefined, JSUndefined, FALSE, <<>>, NoQuery)}
  \cup {Request("calculateGet", v, JSUndefined, FALSE, <<>>, NoQuery) : v \in GetViews}
  \cup {Request("calculatePost", v, JSUndefined, FALSE, <<>>, NoQuery) : v \in PostViews}
  \cup {Request("chartData", JSUndefined, JSUndefined, FALSE, <<>>, q) : q \in Queries}

ScraperRequests ==
  {Request(ep, JSUndefined, u, FALSE, <<>>, NoQuery) : ep \in ScraperSingle, u \in Urls}
  \cup {Request(ep, JSUndefined, JSUndefined, TRUE, us, NoQuery) :
          ep \in ScraperMultiple, us \in UrlLists}
  \cup {Request(ep, JSUndefined, JSUndefined, FALSE, <<>>, NoQuery) : ep \in ScraperMultiple}

Requests == PayoutRequests \cup ScraperRequests

\* ------------------------------------------------------------------ Init
Init ==
  /\ pc = [r \in Req |-> "idle"]
  /\ request = [r \in Req |-> NoRequest]
  /\ files = [f \in FileNames |-> NoFile]
  /\ python = [r \in Req |-> Process("none", NoFile, NoOutcome)]
  /\ stdout = [r \in Req |-> <<>>]
  /\ stderr = [r \in Req |-> <<>>]
  /\ promise = [r \in Req |-> Pending]
  /\ result = [r \in Req |-> VUndefined]
  /\ response = [r \in Req |-> NoResponse]
  /\ arrived = [r \in Req |-> <<>>]
  /\ acquired = [r \in Req |-> FALSE]
  /\ released = [r \in Req |-> FALSE]
  /\ launches = [r \in Req |-> 0]
  /\ bound = [r \in Req |-> VUndefined]
  /\ stdin = [r \in Req |-> Stdin(JSUndefined, <<>>)]

\* ------------------------------------------------------ handler operations
\* const output -> the decoded value: eval(output.trim()) in the benchmarks
\* handler, JSON.parse(output.trim()) in every other handler.
Decode(ep, output) ==
  IF ep = "benchmarks" THEN eval(trim(output)) ELSE JSONParse(trim(output))

\* ([views, payout]) => ({ views, payout }) applied to one element: array
\* destructuring needs an iterable, which a number is not.
Destructurable(e) == e.t \in {"arr", "str"}
PairToPoint(e) ==
  VObj(<< <<"views">>, <<"payout">> >>,
       << IF e.t = "arr" /\ Len(e.items) >= 1 THEN e.items[1] ELSE VUndefined,
          IF e.t = "arr" /\ Len(e.items) >= 2 THEN e.items[2] ELSE VUndefined >>)

\* The statements after `await fs.remove(...)`: the 200 envelope, or the 500
\* of the catch block when building it throws a TypeError.
Envelope(ep, value) ==
  CASE ep = "benchmarks" ->
         IF value.t # "arr" \/ \E i \in 1..Len(value.items) : ~Destructurable(value.items[i])
         THEN Err500(<<Word("TypeError")>>)
         ELSE Ok200(VArr([i \in 1..Len(value.items) |-> PairToPoint(value.items[i])]), -1)
    [] ep \in ScraperMultiple ->
         IF value.t \in {"null", "undefined"} THEN Err500(<<Word("TypeError")>>)
         ELSE Ok200(value, IF value.t = "arr" THEN Len(value.items) ELSE -1)
    [] OTHER -> Ok200(value, -1)

\* ---------------------------------------------------------------- actions
\* A request arrives and its handler runs up to its first await: the 400 of
\* a failed validation, or the call of fs.writeFile(name, script).
Dispatch(r, incoming) ==
  /\ pc[r] = "idle"
  /\ \A q \in Req : q < r => pc[q] # "idle"
  /\ \E rq \in incoming :
       /\ request' = [request EXCEPT ![r] = rq]
       /\ IF Validate(rq) # NoResponse
          THEN /\ response' = [response EXCEPT ![r] = Validate(rq)]
               /\ pc' = [pc EXCEPT ![r] = "done"]
          ELSE /\ pc' = [pc EXCEPT ![r] = "writing"]
               /\ UNCHANGED response
  /\ UNCHANGED <<files, python, stdout, stderr, promise, result, arrived, acquired,
                 released, launches, bound, stdin>>

\* A request to any endpoint arrives.
Arrive(r) == Dispatch(r, Requests)

\* A request to one of the four scraper endpoints arrives.
ArriveScraper(r) == Dispatch(r, ScraperRequests)

\* A handler that launches one worker per URL of urls.
WriteFilePerURL(r) ==
  /\ pc[r] = "writing"
  /\ files' = [files EXCEPT ![FileOf(request[r].ep)] = Render(request[r])]
  /\ acquired' = [acquired EXCEPT ![r] = TRUE]
  /\ python' = [python EXCEPT ![r] = Process("spawned", NoFile, NoOutcome)]
  /\ launches' = [launches EXCEPT ![r] =
                    @ + (IF request[r].isArray THEN Len(request[r].urls) ELSE 1)]
  /\ stdin' = [stdin EXCEPT ![r] = WriteInput(JSUndefined)]
  /\ pc' = [pc EXCEPT ![r] = "running"]
  /\ UNCHANGED <<request, stdout, stderr, promise, result, response, arrived, released,
                 bound>>

\* fs.writeFile completes and the handler goes on: runPythonScript spawns
\* python3 on the file and returns its promise.
WriteFile(r) ==
  /\ pc[r] = "writing"
  /\ files' = [files EXCEPT ![FileOf(request[r].ep)] = Render(request[r])]
  /\ acquired' = [acquired EXCEPT ![r] = TRUE]
  /\ python' = [python EXCEPT ![r] = Process("spawned", NoFile, NoOutcome)]
  /\ launches' = [launches EXCEPT ![r] = @ + 1]
  /\ stdin' = [stdin EXCEPT ![r] = WriteInput(JSUndefined)]
  /\ pc' = [pc EXCEPT ![r] = "running"]
  /\ UNCHANGED <<request, stdout, stderr, promise, result, response, arrived, released,
                 bound>>

\* fs.writeFile rejects: the catch block answers 500.
WriteFileFail(r) ==
  /\ pc[r] = "writing"
  /\ response' = [response EXCEPT ![r] = Err500(<<Word("EACCES")>>)]
  /\ pc' = [pc EXCEPT ![r] = "done"]
  /\ UNCHANGED <<request, files, python, stdout, stderr, promise, result, arrived,
                 acquired, released, launches, bound, stdin>>

\* spawn could not start python3: the child emits 'error'.
SpawnError(r) ==
  /\ python[r].st = "spawned"
  /\ promise' = [promise EXCEPT ![r] = OnError(@, SpawnENOENT)]
  /\ python' = [python EXCEPT ![r].st = "failed"]
  /\ arrived' = [arrived EXCEPT ![r] = Append(@, Event("error", SpawnENOENT, 0))]
  /\ UNCHANGED <<pc, request, files, stdout, stderr, result, response, acquired,
                 released, launches, bound, stdin>>

\* After a failed launch the child still emits 'close', with a negative code.
CloseAfterError(r) ==
  /\ python[r].st = "failed"
  /\ promise' = [promise EXCEPT ![r] = OnClose(@, stdout[r], stderr[r], -2)]
  /\ python' = [python EXCEPT ![r] = Process("exited", @.body, Outcome(<<>>, <<>>, -2))]
  /\ arrived' = [arrived EXCEPT ![r] = Append(@, Event("close", <<>>, -2))]
  /\ UNCHANGED <<pc, request, files, stdout, stderr, result, response, acquired,
                 released, launches, bound, stdin>>

\* The interpreter opens the script file named on its command line and reads
\* it: whatever the file holds at that moment, nothing if it is gone, and
\* possibly an empty file while another handler's writeFile to the same name
\* is under way.
WorkerLoad(r) ==
  /\ python[r].st = "spawned"
  /\ \E body \in {files[FileOf(request[r].ep)]}
                   \cup {EmptyBody : q \in {q \in Req \ {r} :
                           pc[q] = "writing" /\ FileOf(request[q].ep) = FileOf(request[r].ep)}} :
       python' = [python EXCEPT ![r] = Process("running", body, NoOutcome)]
  /\ UNCHANGED <<pc, request, files, stdout, stderr, promise, result, response, arrived,
                 acquired, released, launches, bound, stdin>>

\* The worker runs to its end: its stdout and stderr arrive as 'data' events
\* and then 'close' reports its exit code.
WorkerFinish(r) ==
  /\ python[r].st = "running"
  /\ \E o \in Exec(python[r].body) :
       LET out == IF o.out = <<>> THEN stdout[r] ELSE OnStdoutData(stdout[r], o.out)
           err == IF o.err = <<>> THEN stderr[r] ELSE OnStderrData(stderr[r], o.err)
       IN  /\ stdout' = [stdout EXCEPT ![r] = out]
           /\ stderr' = [stderr EXCEPT ![r] = err]
           /\ arrived' = [arrived EXCEPT ![r] =
                 @ \o (IF o.out = <<>> THEN <<>> ELSE <<Event("stdout", o.out, 0)>>)
                   \o (IF o.err = <<>> THEN <<>> ELSE <<Event("stderr", o.err, 0)>>)
                   \o <<Event("close", <<>>, o.code)>>]
           /\ promise' = [promise EXCEPT ![r] = OnClose(@, out, err, o.code)]
           /\ python' = [python EXCEPT ![r] = Process("exited", @.body, o)]
  /\ UNCHANGED <<pc, request, files, result, response, acquired, released, launches, bound, stdin>>

\* The handler without `await` before runPythonScript(...): it goes on with
\* the promise itself, output.trim() throws, and the catch block answers.
AfterRunNoAwait(r) ==
  /\ pc[r] = "running"
  /\ response' = [response EXCEPT ![r] = Err500(<<Word("TypeError")>>)]
  /\ pc' = [pc EXCEPT ![r] = "done"]
  /\ UNCHANGED <<request, files, python, stdout, stderr, promise, result, arrived,
                 acquired, released, launches, bound, stdin>>

\* The promise has settled and the handler resumes after
\* `await runPythonScript(...)`: a rejection or a decoding error goes to the
\* catch block; otherwise the handler calls fs.remove(name).
AfterRun(r) ==
  /\ pc[r] = "running"
  /\ promise[r].state # "pending"
  /\ LET d == Decode(request[r].ep, promise[r].value) IN
     IF promise[r].state = "rejected"
     THEN /\ response' = [response EXCEPT ![r] = Err500(promise[r].value)]
          /\ pc' = [pc EXCEPT ![r] = "done"]
          /\ UNCHANGED result
     ELSE IF ~d.ok
     THEN /\ response' = [response EXCEPT ![r] = Err500(<<Word("SyntaxError")>>)]
          /\ pc' = [pc EXCEPT ![r] = "done"]
          /\ UNCHANGED result
     ELSE /\ result' = [result EXCEPT ![r] = d.val]
          /\ pc' = [pc EXCEPT ![r] = "removing"]
          /\ UNCHANGED response
  /\ UNCHANGED <<request, files, python, stdout, stderr, promise, arrived, acquired,
                 released, launches, bound, stdin>>

\* fs.remove completes (a file that is already gone is no error) and the
\* handler sends its envelope.
RemoveFile(r) ==
  /\ pc[r] = "removing"
  /\ files' = [files EXCEPT ![FileOf(request[r].ep)] = NoFile]
  /\ released' = [released EXCEPT ![r] = TRUE]
  /\ response' = [response EXCEPT ![r] = Envelope(request[r].ep, result[r])]
  /\ pc' = [pc EXCEPT ![r] = "done"]
  /\ UNCHANGED <<request, python, stdout, stderr, promise, result, arrived, acquired,
                 launches, bound, stdin>>

\* fs.remove rejects: the catch block answers 500.
RemoveFail(r) ==
  /\ pc[r] = "removing"
  /\ response' = [response EXCEPT ![r] = Err500(<<Word("EPERM")>>)]
  /\ pc' = [pc EXCEPT ![r] = "done"]
  /\ UNCHANGED <<request, files, python, stdout, stderr, promise, result, arrived,
                 acquired, released, launches, bound, stdin>>

Next ==
  \E r \in Req :
    \/ Arrive(r)
    \/ WriteFile(r)
    \/ WriteFileFail(r)
    \/ SpawnError(r)
    \/ CloseAfterError(r)
    \/ WorkerLoad(r)
    \/ WorkerFinish(r)
    \/ AfterRun(r)
    \/ RemoveFile(r)
    \/ RemoveFail(r)

Spec == Init /\ [][Next]_vars

\* The server under scraper traffic only: the scraper handlers share no file
\* and no variable with the payout handlers.
ScraperNext ==
  \E r \in Req :
    \/ ArriveScraper(r)
    \/ WriteFile(r)
    \/ WriteFileFail(r)
    \/ SpawnError(r)
    \/ CloseAfterError(r)
    \/ WorkerLoad(r)
    \/ WorkerFinish(r)
    \/ AfterRun(r)
    \/ RemoveFile(r)
    \/ RemoveFail(r)

ScraperSpec == Init /\ [][ScraperNext]_vars

\* ------------------------------------------ two requests to one scraper route
\* Two concurrent requests to POST /api/scraper/advanced, in slots 1 and 2.
AdvancedRequests == {rq \in ScraperRequests : rq.ep = "advanced"}

ArriveAdvanced(r) == Dispatch(r, AdvancedRequests)

LiveNext ==
  \E r \in {1, 2} :
    \/ ArriveAdvanced(r)
    \/ WriteFile(r)
    \/ WriteFileFail(r)
    \/ SpawnError(r)
    \/ CloseAfterError(r)
    \/ WorkerLoad(r)
    \/ WorkerFinish(r)
    \/ AfterRun(r)
    \/ RemoveFile(r)
    \/ RemoveFail(r)

\* A step of the handler of r that waits for nothing but the file system
\* or a settled promise.
HandlerStep(r) ==
  \/ WriteFile(r)
  \/ WriteFileFail(r)
  \/ AfterRun(r)
  \/ RemoveFile(r)
  \/ RemoveFail(r)

\* What the event loop and the file system guarantee: while some handler
\* has such a step to take, a handler step is taken. Nothing makes a worker
\* read its script or exit: a worker may hang for ever.
HandlerFairness == WF_vars(\E r \in {1, 2} : HandlerStep(r))

LiveSpec == Init /\ [][LiveNext]_vars /\ HandlerFairness

\* ------------------------------------------- runPythonScript on its own
\* runPythonScript called once, with a child that may emit any sequence of
\* events: up to MaxChunks 'data' chunks, at most one 'error', and a final
\* 'close' with any code.
StdoutChunks == {<<Num(1)>>, <<Num(2), NL>>}
StderrChunks == {<<Word("warning")>>}
ExitCodes == {0, 1, -2}

DataEvents(r) == Cardinality({i \in 1..Len(arrived[r]) : arrived[r][i].ev \in {"stdout", "stderr"}})

\* The inputs runPythonScript is called with: none, and truthy and falsy
\* primitive values.
BridgeInputs ==
  {JSUndefined, JSInt(0), JSInt(7), JSStr(<<>>), JSStr(<<"a", "\"">>), JSBool(FALSE),
   JSBool(TRUE)}

\* runPythonScript(scriptName, [], input): spawn, register the listeners and
\* feed the input to the child's stdin.
BridgeCall(r) ==
  /\ python[r].st = "none"
  /\ python' = [python EXCEPT ![r].st = "spawned"]
  /\ launches' = [launches EXCEPT ![r] = @ + 1]
  /\ \E input \in BridgeInputs : stdin' = [stdin EXCEPT ![r] = WriteInput(input)]
  /\ UNCHANGED <<pc, request, files, stdout, stderr, promise, result, response, arrived,
                 acquired, released, bound>>

BridgeStdoutData(r) ==
  /\ python[r].st \in {"spawned", "failed"}
  /\ DataEvents(r) < MaxChunks
  /\ \E data \in StdoutChunks :
       /\ stdout' = [stdout EXCEPT ![r] = OnStdoutData(@, data)]
       /\ arrived' = [arrived EXCEPT ![r] = Append(@, Event("stdout", data, 0))]
  /\ UNCHANGED <<pc, request, files, python, stderr, promise, result, response,
                 acquired, released, launches, bound, stdin>>

BridgeStderrData(r) ==
  /\ python[r].st \in {"spawned", "failed"}
  /\ DataEvents(r) < MaxChunks
  /\ \E data \in StderrChunks :
       /\ stderr' = [stderr EXCEPT ![r] = OnStderrData(@, data)]
       /\ arrived' = [arrived EXCEPT ![r] = Append(@, Event("stderr", data, 0))]
  /\ UNCHANGED <<pc, request, files, python, stdout, promise, result, response,
                 acquired, released, launches, bound, stdin>>

BridgeError(r) ==
  /\ python[r].st = "spawned"
  /\ promise' = [promise EXCEPT ![r] = OnError(@, SpawnENOENT)]
  /\ python' = [python EXCEPT ![r].st = "failed"]
  /\ arrived' = [arrived EXCEPT ![r] = Append(@, Event("error", SpawnENOENT, 0))]
  /\ UNCHANGED <<pc, request, files, stdout, stderr, result, response, acquired,
                 released, launches, bound, stdin>>

BridgeClose(r) ==
  /\ python[r].st \in {"spawned", "failed"}
  /\ \E code \in ExitCodes :
       /\ promise' = [promise EXCEPT ![r] = OnClose(@, stdout[r], stderr[r], code)]
       /\ python' = [python EXCEPT ![r] = Process("exited", @.body, Outcome(stdout[r], stderr[r], code))]
       /\ arrived' = [arrived EXCEPT ![r] = Append(@, Event("close", <<>>, code))]
  /\ UNCHANGED <<pc, request, files, stdout, stderr, result, response, acquired,
                 released, launches, bound, stdin>>

BridgeNext ==
  \/ BridgeCall(1)
  \/ BridgeStdoutData(1)
  \/ BridgeStderrData(1)
  \/ BridgeError(1)
  \/ BridgeClose(1)

BridgeSpec == Init /\ [][BridgeNext]_vars

\* ------------------------------------------ the scripts, character by character
\* A scanned Python string literal: its value and the source text after it.
PyLit(ok, val, rest) == [ok |-> ok, val |-> val, rest |-> rest]

RECURSIVE SourceText(_)
\* The characters of the script that the tokens of a template hole stand
\* for: `"${url}"` puts the characters of url between two quotes as they
\* are, JSON.stringify(urls) writes each string as a JSON string.
SourceText(ts) ==
  IF ts = <<>> THEN <<>>
  ELSE (CASE Head(ts).k = "splice" -> <<"\"">> \o Head(ts).s \o <<"\"">>
          [] Head(ts).k = "str" -> <<"\"">> \o JSONQuoteChars(Head(ts).s) \o <<"\"">>
          [] OTHER -> Head(ts).s) \o SourceText(Tail(ts))

RECURSIVE PyStringChars(_, _)
\* Python's scan of a "..." literal after its opening quote: it ends at the
\* first quote that no backslash precedes; a line end inside it is a
\* SyntaxError; \\ \" \n are escapes, backslash-newline is dropped, any
\* other backslash stays.
PyStringChars(src, acc) ==
  IF src = <<>> \/ Head(src) = "\n" THEN PyLit(FALSE, <<>>, <<>>)
  ELSE IF Head(src) = "\"" THEN PyLit(TRUE, acc, Tail(src))
  ELSE IF Head(src) # "\\" THEN PyStringChars(Tail(src), Append(acc, Head(src)))
  ELSE IF Len(src) < 2 THEN PyLit(FALSE, <<>>, <<>>)
  ELSE LET c == src[2]
           rest == SubSeq(src, 3, Len(src))
       IN  CASE c \in {"\\", "\""} -> PyStringChars(rest, Append(acc, c))
             [] c = "n" -> PyStringChars(rest, Append(acc, "\n"))
             [] c = "t" -> PyStringChars(rest, Append(acc, "\t"))
             [] c = "\n" -> PyStringChars(rest, acc)
             [] OTHER -> PyStringChars(rest, acc \o <<"\\", c>>)

\* A string literal at the start of src.
PyStringLiteral(src) ==
  IF src = <<>> \/ Head(src) # "\"" THEN PyLit(FALSE, <<>>, <<>>)
  ELSE PyStringChars(Tail(src), <<>>)

RECURSIVE PyListItems(_, _)
\* The items of a list display after its "[": string literals separated by
\* commas, up to the closing "]".
PyListItems(src, acc) ==
  LET lit == PyStringLiteral(src) IN
  IF ~lit.ok \/ lit.rest = <<>> THEN PyLit(FALSE, <<>>, <<>>)
  ELSE IF Head(lit.rest) = "]" THEN PyLit(TRUE, Append(acc, lit.val), Tail(lit.rest))
  ELSE IF Head(lit.rest) = "," THEN PyListItems(Tail(lit.rest), Append(acc, lit.val))
  ELSE PyLit(FALSE, <<>>, <<>>)

\* What the interpreter makes of a script it cannot compile, and of an
\* assignment that does not end where the template's literal ends.
PySyntaxError == Val("SyntaxError", 0, <<>>, <<>>, <<>>)
PyAltered == Val("altered", 0, <<>>, <<>>, <<>>)

\* url = "..." / urls = [...]: the value the assignment of a scraping script
\* binds, read from the text of the script.
PyBind(body) ==
  LET src == SourceText(body.args) IN
  IF body.tpl \in ScraperSingle
  THEN LET lit == PyStringLiteral(src) IN
       IF ~lit.ok THEN PySyntaxError
       ELSE IF lit.rest # <<>> THEN PyAltered
       ELSE VStr(lit.val)
  ELSE IF src = <<>> \/ Head(src) # "[" THEN PySyntaxError
  ELSE LET lst == PyListItems(Tail(src), <<>>) IN
       IF ~lst.ok THEN PySyntaxError
       ELSE IF lst.rest # <<>> THEN PyAltered
       ELSE VArr([i \in 1..Len(lst.val) |-> VStr(lst.val[i])])

\* ---------------------------------------------- one scraping script, end to end
\* A scraper request whose url holds characters that matter to a template
\* literal and to a Python string literal, after the scheme "a:".
MaxTail == 2
TemplateChars == {"\"", "\\", "\n", "$", "{", "n"}
Tails == UNION {[1..k -> TemplateChars] : k \in 0..MaxTail}
TemplateUrls == {JSStr(<<"a", ":">> \o t) : t \in Tails}

TemplateRequests ==
  {Request(ep, JSUndefined, u, FALSE, <<>>, NoQuery) : ep \in ScraperSingle, u \in TemplateUrls}
  \cup {Request(ep, JSUndefined, JSUndefined, TRUE, us, NoQuery) :
          ep \in ScraperMultiple,
          us \in {<<u>> : u \in TemplateUrls} \cup {<<UrlB, u>> : u \in TemplateUrls}}

\* A scraper request with such a url arrives.
ArriveTemplate(r) == Dispatch(r, TemplateRequests)

\* The interpreter runs the script up to its assignment `url = "..."` or
\* `urls = [...]`.
WorkerBind(r) ==
  /\ python[r].st = "running"
  /\ python[r].body.tpl \in ScraperSingle \cup ScraperMultiple
  /\ bound[r] = VUndefined
  /\ bound' = [bound EXCEPT ![r] = PyBind(python[r].body)]
  /\ UNCHANGED <<pc, request, files, python, stdout, stderr, promise, result, response,
                 arrived, acquired, released, launches, stdin>>

TemplateNext ==
  \/ ArriveTemplate(1)
  \/ WriteFile(1)
  \/ WorkerLoad(1)
  \/ WorkerBind(1)

TemplateSpec == Init /\ [][TemplateNext]_vars

\* ------------------------------------------------ the payout script on its own
\* The payout script run for two view counts, one per slot: the points of
\* the benchmark table and their neighbours, 1, and a grid that passes the
\* upper end of the table.
GridPoints == 42
PayoutInputs ==
  {1} \cup UNION {{benchmarks[i][1] - 1, benchmarks[i][1], benchmarks[i][1] + 1} :
                    i \in 1..Len(benchmarks)}
      \cup {125000 * k : k \in 1..GridPoints}

\* python3 temp_payout.py with `views = v` in the script: the worker's
\* output, decoded as the handler decodes it.
RunPayout(r) ==
  /\ python[r].st = "none"
  /\ \E v \in PayoutInputs :
       LET body == Body("payout", <<Num(v)>>) IN
       \E o \in Exec(body) :
         /\ python' = [python EXCEPT ![r] = Process("exited", body, o)]
         /\ result' = [result EXCEPT ![r] = JSONParse(trim(o.out)).val]
  /\ UNCHANGED <<pc, request, files, stdout, stderr, promise, response, arrived,
                 acquired, released, launches, bound, stdin>>

PayoutNext ==
  \/ RunPayout(1)
  \/ RunPayout(2)

PayoutSpec == Init /\ [][PayoutNext]_vars

\* ------------------------------------------- the chart-data script on its own
\* The chart-data script run for small start, end and step, and for two
\* ranges at the upper end of the benchmark table.
MaxStart == 4
MaxEnd == 7
MaxStep == 4
ChartInputs ==
  {<<a, b, c>> : a \in 1..MaxStart, b \in 1..MaxEnd, c \in 1..MaxStep}
  \cup {<<4999998, 5000000, 1>>, <<4999998, 5000001, 2>>}

\* python3 temp_chart.py with start, end and step in the script: the
\* worker's output, decoded as the handler decodes it.
RunChart(r) ==
  /\ python[r].st = "none"
  /\ \E in \in ChartInputs :
       LET body == Body("chart", <<Num(in[1]), Num(in[2]), Num(in[3])>>) IN
       \E o \in Exec(body) :
         /\ python' = [python EXCEPT ![r] = Process("exited", body, o)]
         /\ result' = [result EXCEPT ![r] = JSONParse(trim(o.out)).val]
  /\ UNCHANGED <<pc, request, files, stdout, stderr, promise, response, arrived,
                 acquired, released, launches, bound, stdin>>

ChartNext == RunChart(1)

ChartSpec == Init /\ [][ChartNext]_vars

\* ----------------------------------------------------------------- claims
\* A handler holds its temp file from its writeFile until its remove.
InFlight(r) == pc[r] \in {"running", "removing"}
\* The worker of r was launched and has read a script (or found none).
Loaded(r) ==
  \/ python[r].st = "running"
  \/ python[r].st = "exited" /\ \A i \in 1..Len(arrived[r]) : arrived[r][i].ev # "error"
\* Concatenation, in arrival order, of the chunks of one stream.
RECURSIVE Accumulated(_, _)
Accumulated(events, stream) ==
  IF events = <<>> THEN <<>>
  ELSE (IF Head(events).ev = stream THEN Head(events).data ELSE <<>>)
         \o Accumulated(Tail(events), stream)
\* Index of the first 'close' or 'error' event, 0 when there is none.
FirstSettling(events) ==
  LET I == {i \in 1..Len(events) : events[i].ev \in {"close", "error"}}
  IN  IF I = {} THEN 0 ELSE CHOOSE i \in I : \A j \in I : i <= j
\* The eight benchmark points as {views, payout} objects, in table order.
BenchmarkPoints ==
  VArr([i \in 1..Len(benchmarks) |->
          VObj(<< <<"views">>, <<"payout">> >>,
               <<VNum(benchmarks[i][1]), VNum(benchmarks[i][2])>>)])

\* C1: a handler that wrote its temp script has removed it by the time it
\* has sent its response, on every exit path.
C1_ReleasedBeforeResponse ==
  \A r \in Req : pc[r] = "done" /\ acquired[r] => released[r]

\* C2: no two requests in flight at the same time (between writing and
\* removing their temp script) use the same temp file name.
C2_DistinctNamesInFlight ==
  \A r, q \in Req :
    r # q /\ InFlight(r) /\ InFlight(q)
      => FileOf(request[r].ep) # FileOf(request[q].ep)

\* C3: the script a request's worker executes is the script that request
\* rendered, and a successful payout calculate response carries the views of
\* the request it answers.
C3_WorkerRunsOwnScript ==
  \A r \in Req :
    /\ Loaded(r) => python[r].body = Render(request[r])
    /\ request[r].ep \in Calculate /\ response[r].status = 200
         => Field(response[r].data, <<"views">>) = VNum(Render(request[r]).args[1].n)

\* C4: a temp script written by a request exists from that write until the
\* request's own worker has terminated.
C4_ScriptExistsWhileWorkerLives ==
  \A r \in Req :
    acquired[r] /\ python[r].st \in {"spawned", "running"}
      => files[FileOf(request[r].ep)] # NoFile

\* C5: when 'close' settles the promise, code 0 resolves it with all stdout
\* chunks concatenated in arrival order, and a nonzero code rejects it with
\* the accumulated stderr text, or with 'Process exited with code N' when
\* that text is empty.
C5_CloseSettlesWithAccumulatedText ==
  \A r \in Req :
    LET i == FirstSettling(arrived[r]) IN
    i # 0 /\ arrived[r][i].ev = "close" =>
      LET before == SubSeq(arrived[r], 1, i - 1)
          out == Accumulated(before, "stdout")
          err == Accumulated(before, "stderr")
          code == arrived[r][i].code
      IN  IF code = 0 THEN promise[r] = Resolved(out)
          ELSE promise[r] = Rejected(IF err # <<>> THEN err
                                     ELSE <<Word("Process exited with code"), Num(code)>>)

\* C5 witness: a promise resolved by 'close' with code 0 after two stdout
\* chunks and a stderr chunk.
C5_Witness ==
  \E r \in Req :
    /\ Len(arrived[r]) = 4
    /\ arrived[r][1] = Event("stdout", <<Num(2), NL>>, 0)
    /\ arrived[r][2] = Event("stderr", <<Word("warning")>>, 0)
    /\ arrived[r][3] = Event("stdout", <<Num(1)>>, 0)
    /\ arrived[r][4] = Event("close", <<>>, 0)
    /\ promise[r] = Resolved(<<Num(2), NL, Num(1)>>)

\* C6: a worker that exits 0 with decodable stdout X yields 200 with
\* {success: true, data: decode(trim(X))}; one that exits nonzero with
\* stderr E yields 500 with {success: false, error: E}; one that exits 0
\* with undecodable stdout yields 500 with success false.
C6_EnvelopeFollowsOutcome ==
  \A r \in Req :
    pc[r] = "done" /\ Loaded(r) /\ python[r].st = "exited" =>
      LET code == python[r].outcome.code
          d == Decode(request[r].ep, stdout[r])
      IN  /\ code = 0 /\ d.ok
                => /\ response[r].status = 200
                   /\ response[r].success
                   /\ request[r].ep # "benchmarks" => response[r].data = d.val
          /\ code # 0 /\ stderr[r] # <<>>
                => response[r] = Err500(stderr[r])
          /\ code = 0 /\ ~d.ok
                => response[r].status = 500 /\ ~response[r].success

\* C7: GET /api/payout/benchmarks, when its worker exits 0 printing the
\* benchmark list, answers 200 with the eight {views, payout} points in
\* table order.
C7_BenchmarksAnswered ==
  \A r \in Req :
    /\ request[r].ep = "benchmarks"
    /\ pc[r] = "done"
    /\ python[r].st = "exited"
    /\ python[r].outcome.code = 0
    /\ stdout[r] = PyRepr(benchmarksValue) \o <<NL>>
    => response[r] = Ok200(BenchmarkPoints, -1)

\* Some url of a scraper request does not parse as an absolute URL.
HasMalformedURL(rq) ==
  \/ rq.ep \in ScraperSingle /\ ~URLParses(rq.url)
  \/ rq.ep \in ScraperMultiple /\ rq.isArray
       /\ \E i \in 1..Len(rq.urls) : ~URLParses(rq.urls[i])

\* C8: a scraper request with a url, or any element of urls, that does not
\* parse as an absolute URL is answered 400 with success false, and for it
\* no temp script is written and no worker is launched.
C8_MalformedURLRejected ==
  \A r \in Req :
    HasMalformedURL(request[r])
      => /\ pc[r] = "done"
         /\ response[r].status = 400
         /\ ~response[r].success
         /\ ~acquired[r]
         /\ launches[r] = 0
         /\ python[r].st = "none"

\* C8 witness: a multiple-URL request whose second element is malformed has
\* been answered 400 while another request's worker is running.
C8_Witness ==
  \E r, q \in Req :
    /\ request[r].ep \in ScraperMultiple
    /\ request[r].urls = <<UrlA, NotAUrl>>
    /\ response[r].status = 400
    /\ python[q].st = "running"

\* C9: on both payout calculate endpoints the views value embedded into the
\* script is a positive integer; any other request is rejected with 400
\* 'Views must be a positive number' before a script is written or a worker
\* launched.
C9_EmbeddedViewsPositive ==
  \A r \in Req :
    request[r].ep \in Calculate =>
      \/ /\ response[r] = Err400(<<Word("Views must be a positive number")>>)
         /\ ~acquired[r]
         /\ launches[r] = 0
      \/ /\ Render(request[r]).args[1].k = "num"
         /\ Render(request[r]).args[1].n > 0

\* A chart-data request with a non-numeric start, end or step, or step = 0.
MalformedQuery(rq) ==
  LET start == parseInt(Default(rq.query[1], 1000))
      end == parseInt(Default(rq.query[2], 5000000))
      step == parseInt(Default(rq.query[3], 10000))
  IN  isNaN(start) \/ isNaN(end) \/ isNaN(step) \/ IsZero(step)

\* C10: malformed input is answered 400 before a temp script is written or a
\* worker launched; in particular chart-data with a non-numeric start, end
\* or step, or with step = 0.
C10_MalformedQueryRejected ==
  \A r \in Req :
    request[r].ep = "chartData" /\ MalformedQuery(request[r])
      => /\ pc[r] = "done"
         /\ response[r].status = 400
         /\ ~acquired[r]
         /\ launches[r] = 0

\* C11: a failed removal of the temp script, after the worker exited 0 and
\* its output decoded, never turns the request into a failure: the request
\* is answered 200 with the success envelope carrying the decoded data.
C11_RemoveFailureStillSucceeds ==
  \A r \in Req :
    ( /\ pc[r] = "done"
      /\ promise[r].state = "resolved"
      /\ Decode(request[r].ep, promise[r].value).ok
      /\ acquired[r] /\ ~released[r] )
      => /\ response[r].status = 200
         /\ response[r].success
         /\ response[r].data = Decode(request[r].ep, promise[r].value).val

\* The value a scraper request asks its script to bind: the url string, or
\* the list of the urls strings.
Embedded(rq) ==
  IF rq.ep \in ScraperSingle THEN VStr(ToChars(rq.url))
  ELSE VArr([i \in 1..Len(rq.urls) |-> VStr(ToChars(rq.urls[i]))])

\* C12: for every url that passes validation (a quote, a backslash, a
\* newline or "${" included), the value the rendered script binds to url
\* equals the request's string and the script's structure is unchanged; the
\* same for every element of urls on the multiple endpoints.
C12_EmbeddedURLRoundTrips ==
  \A r \in Req :
    bound[r] # VUndefined => bound[r] = Embedded(request[r])

\* The payout script has run in slot r; the views it was given and the
\* payout it printed.
PayoutRan(r) == python[r].st = "exited" /\ python[r].body.tpl = "payout"
ViewsOf(r) == python[r].body.args[1].n
PayoutOf(r) == Field(result[r], <<"payout">>).n

\* C13: payout(views) is 45 for every positive views <= 10000 and 2500 for
\* every views >= 5000000.
C13_PayoutClampedAtEnds ==
  \A r \in Req :
    PayoutRan(r) =>
      /\ (ViewsOf(r) > 0 /\ ViewsOf(r) <= 10000) => PayoutOf(r) = 45
      /\ ViewsOf(r) >= 5000000 => PayoutOf(r) = 2500

C13_Witness ==
  /\ PayoutRan(1) /\ ViewsOf(1) = 9999 /\ PayoutOf(1) = 45
  /\ PayoutRan(2) /\ ViewsOf(2) = 5000001 /\ PayoutOf(2) = 2500

\* C14: every point of the benchmark table is a fixed point of payout:
\* payout(v) = p for each (v, p) of the table.
C14_TablePointsFixed ==
  \A r \in Req :
    PayoutRan(r) =>
      \A i \in 1..Len(benchmarks) :
        ViewsOf(r) = benchmarks[i][1] => PayoutOf(r) = benchmarks[i][2]

C14_Witness ==
  /\ PayoutRan(1) /\ ViewsOf(1) = 50000 /\ PayoutOf(1) = 160
  /\ PayoutRan(2) /\ ViewsOf(2) = 100000 /\ PayoutOf(2) = 260

\* C15: payout is monotonically non-decreasing: a <= b implies
\* payout(a) <= payout(b), across segment boundaries and the clamped ends.
C15_PayoutMonotone ==
  \A r, q \in Req :
    (PayoutRan(r) /\ PayoutRan(q) /\ ViewsOf(r) <= ViewsOf(q))
      => PayoutOf(r) <= PayoutOf(q)

C15_Witness ==
  /\ PayoutRan(1) /\ ViewsOf(1) = 24999
  /\ PayoutRan(2) /\ ViewsOf(2) = 25001
  /\ PayoutOf(1) <= PayoutOf(2)

\* The chart-data script has run in slot r; its start, end and step, and
\* the chart_data list it printed.
ChartRan(r) == python[r].st = "exited" /\ python[r].body.tpl = "chart"
StartOf(r) == python[r].body.args[1].n
EndOf(r) == python[r].body.args[2].n
StepOf(r) == python[r].body.args[3].n
ChartData(r) == Field(result[r], <<"chart_data">>).items

\* chart_data holds the points start, start + step, ... in order, each with
\* payout(views) as its payout.
OnStepBoundaries(r) ==
  \A i \in 1..Len(ChartData(r)) :
    ChartData(r)[i] = PayoutPoint(StartOf(r) + (i - 1) * StepOf(r))

\* C16 as stated: for start <= end and step > 0, chart_data holds one point
\* per step boundary start, start + step, ..., each with payout(views), and
\* includes the point views = end.
C16_ChartIncludesEnd ==
  \A r \in Req :
    (ChartRan(r) /\ StartOf(r) <= EndOf(r) /\ StepOf(r) > 0)
      => /\ OnStepBoundaries(r)
         /\ \E i \in 1..Len(ChartData(r)) : ChartData(r)[i] = PayoutPoint(EndOf(r))

\* C16 amended: for start <= end and step > 0, chart_data holds exactly the
\* points start + k * step that do not exceed end, in order, each with
\* payout(views); views = end is one of them exactly when step divides
\* end - start.
C16_ChartUpToEnd ==
  \A r \in Req :
    (ChartRan(r) /\ StartOf(r) <= EndOf(r) /\ StepOf(r) > 0)
      => /\ OnStepBoundaries(r)
         /\ Len(ChartData(r)) = (EndOf(r) - StartOf(r)) \div StepOf(r) + 1
         /\ (\E i \in 1..Len(ChartData(r)) : ChartData(r)[i] = PayoutPoint(EndOf(r)))
              <=> (EndOf(r) - StartOf(r)) % StepOf(r) = 0

\* A range whose end is no step boundary: two points, the last one below end.
C16_Witness ==
  /\ ChartRan(1)
  /\ StartOf(1) = 4999998 /\ EndOf(1) = 5000001 /\ StepOf(1) = 2
  /\ Len(ChartData(1)) = 2
  /\ ChartData(1)[2] = PayoutPoint(5000000)

\* The worker of r could not be launched: 'error' is the first event of
\* its child process.
LaunchFailed(r) == arrived[r] # <<>> /\ arrived[r][1].ev = "error"

\* C17: when the worker cannot be launched, runPythonScript rejects with the
\* underlying fault without waiting for output or exit, and the handler
\* answers 500 with success false and that fault's message.
C17_LaunchFaultRejects ==
  \A r \in Req :
    LaunchFailed(r) =>
      /\ promise[r] = Rejected(arrived[r][1].data)
      /\ pc[r] \in {"running", "done"}
      /\ pc[r] = "done" => response[r] = Err500(arrived[r][1].data)

\* A request answered 500 with the launch fault before any other event of
\* the child process has arrived.
C17_Witness ==
  \E r \in Req :
    /\ arrived[r] = <<Event("error", SpawnENOENT, 0)>>
    /\ pc[r] = "done"
    /\ response[r] = Err500(SpawnENOENT)
    /\ ~response[r].success

WorkerOver(r) == python[r].st \in {"exited", "failed"}

\* C19: a request is answered once; a request that launched a worker is
\* answered only after that worker has terminated or failed to launch (no
\* timeout answers for a hung worker), and once its worker is over it is
\* eventually answered, whatever the workers of the other requests do.
C19_AnsweredOnceWorkerIsOver ==
  /\ [](\A r \in Req :
          /\ response[r] # NoResponse <=> pc[r] = "done"
          /\ (pc[r] = "done" /\ launches[r] > 0) => WorkerOver(r))
  /\ [][\A r \in Req :
          pc[r] = "done" => pc'[r] = "done" /\ response'[r] = response[r]]_vars
  /\ \A r \in Req : WorkerOver(r) ~> pc[r] = "done"

\* The first request's worker is still running, its handler still waits,
\* and the second request, which arrived later, has been answered 200 after
\* its own worker exited.
C19_Witness ==
  /\ pc[1] = "running" /\ python[1].st = "running" /\ response[1] = NoResponse
  /\ pc[2] = "done" /\ python[2].st = "exited" /\ response[2].status = 200

C21_InputWrittenThenClosed ==
  \A r \in Req :
    (python[r].st # "none" \/ promise[r].state # "pending")
      => stdin[r] = WriteInputAlways(stdin[r].input)

====
